---------------------------- MODULE Spec2Model ----------------------------
(***************************************************************************)
(* A model of the JSON patch generator of ftw-soft/jsonpatch               *)
(* (src/jsonpatch.go) together with the harness its tests drive it with    *)
(* (src/unnamed/part_000, func check): CreatePatch, json.Marshal of the    *)
(* operations, and an RFC 6902 application of the marshalled patch; and     *)
(* the sort of a patch by path two of the tests do (sort.Sort(ByPath)).     *)
(*                                                                         *)
(* A document handed to CreatePatchFromBytes is modelled by what           *)
(* json.Unmarshal makes of it: a JSON value, or Invalid for a text it      *)
(* rejects.                                                                *)
(*                                                                         *)
(* Go strings (object keys, paths, string scalars) are sequences of        *)
(* one-character strings, so that escaping, suffix tests and pointer       *)
(* parsing are computed and not assumed.  A JSON value is a record         *)
(* [k |-> kind, <payload>]; each kind has a payload field of its own (b, n, *)
(* s, m, q), so that values of different kinds compare unequal; Go's nil  *)
(* interface is Null.                                                     *)
(*                                                                         *)
(* The text Operation.MarshalJSON writes is kept as a text, character by   *)
(* character, and read back by a JSON reader: json.Marshal accepts it or   *)
(* rejects it as a whole, and the applier sees the members the reader      *)
(* finds in it.  check goes on after a failed assertion; failed holds the  *)
(* steps whose assertion failed.                                           *)
(***************************************************************************)
EXTENDS Integers, Sequences, FiniteSets, TLC

VARIABLES src, dst, patch, prev, calls, data, decoded, doc, applied, failed, pc

vars == <<src, dst, patch, prev, calls, data, decoded, doc, applied, failed, pc>>

\* ------------------------------------------------------------------ bounds

\* Longest array of the array families.
MaxLen == 3

\* Longest array of the mixed (scalar / object / array element) family.
MaxMixed == 2

\* Longest source and target array of the nested (scalar / array element) family.
MaxNested == 3
MaxNestedTarget == 2

\* Number of CreatePatch invocations on one pair of inputs.
MaxCalls == 2

\* ------------------------------------------------------------- JSON values

Null == [k |-> "null"]
Bool(x) == [k |-> "bool", b |-> x]
Num(x) == [k |-> "num", n |-> x]
Str(x) == [k |-> "str", s |-> x]
Obj(f) == [k |-> "obj", m |-> f]
Arr(x) == [k |-> "arr", q |-> x]

\* A document text json.Unmarshal rejects.
Invalid == [k |-> "invalid"]

\* a[key] of a Go map: the zero value nil when the key is absent.
Lookup(m, key) == IF key \in DOMAIN m THEN m[key] ELSE Null

Range(q) == {q[i] : i \in DOMAIN q}

RECURSIVE matchesValue(_, _)
RECURSIVE diff(_, _, _, _)
RECURSIVE diffTargetLoop(_, _, _, _, _, _)
RECURSIVE handleValues(_, _, _, _)
RECURSIVE positionalPairs(_, _, _, _, _, _)
RECURSIVE compareEditDistance(_, _, _)
RECURSIVE backtrace(_, _, _, _, _, _)
RECURSIVE StringLess(_, _)
RECURSIVE ByPath(_)
RECURSIVE HexString(_, _)
RECURSIVE EncodeChars(_)
RECURSIVE SortedKeys(_)
RECURSIVE JoinComma(_)
RECURSIVE EncodeValue(_)
RECURSIVE fillMatrix(_, _, _, _, _)
RECURSIVE Itoa(_)
RECURSIVE rfc6901Encoder(_)
RECURSIVE isSimpleArrayFrom(_, _)

\* ----------------------------------------------------------- value equality

matchesValue(av, bv) ==
    CASE av.k = "str" -> bv.k = "str" /\ bv.s = av.s
      [] av.k = "num" -> bv.k = "num" /\ bv.n = av.n
      [] av.k = "bool" -> bv.k = "bool" /\ bv.b = av.b
      [] av.k = "obj" ->
            /\ bv.k = "obj"
            /\ \A key \in DOMAIN av.m : matchesValue(Lookup(av.m, key), Lookup(bv.m, key))
            /\ \A key \in DOMAIN bv.m : matchesValue(Lookup(av.m, key), Lookup(bv.m, key))
      [] av.k = "arr" ->
            /\ bv.k = "arr"
            /\ Len(bv.q) = Len(av.q)
            /\ \A i \in 1..Len(av.q) : matchesValue(av.q[i], bv.q[i])
      [] OTHER -> FALSE

\* --------------------------------------------------------------- path codec

DigitChar(d) == <<"0", "1", "2", "3", "4", "5", "6", "7", "8", "9">>[d + 1]

Digits == {"0", "1", "2", "3", "4", "5", "6", "7", "8", "9"}

DigitValue(c) == CHOOSE d \in 0..9 : DigitChar(d) = c

\* strconv.Itoa for a non-negative int.
Itoa(n) == IF n < 10 THEN <<DigitChar(n)>> ELSE Itoa(n \div 10) \o <<DigitChar(n % 10)>>

\* strings.NewReplacer("~", "~0", "/", "~1"): one pass, byte by byte.
rfc6901Encoder(s) ==
    IF s = <<>> THEN <<>>
    ELSE (CASE Head(s) = "~" -> <<"~", "0">>
            [] Head(s) = "/" -> <<"~", "1">>
            [] OTHER -> <<Head(s)>>) \o rfc6901Encoder(Tail(s))

HasSuffixSlash(path) == path # <<>> /\ path[Len(path)] = "/"

makePath(path, newPart) ==
    IF path = <<>> THEN <<"/">> \o rfc6901Encoder(newPart)
    ELSE IF HasSuffixSlash(path) THEN path \o rfc6901Encoder(newPart)
    ELSE path \o <<"/">> \o rfc6901Encoder(newPart)

makePathInt(path, newPart) == makePath(path, Itoa(newPart))

\* --------------------------------------------------------------- characters
\* A character is a string: itself where a string of this language can hold
\* it, "U+" and its code in hexadecimal where it cannot.

HexName(d) == <<"0", "1", "2", "3", "4", "5", "6", "7",
                "8", "9", "A", "B", "C", "D", "E", "F">>[d + 1]

\* The code in hexadecimal, four digits or more.
HexString(code, digits) ==
    IF code < 16 /\ digits <= 1 THEN HexName(code)
    ELSE HexString(code \div 16, digits - 1) \o HexName(code % 16)

CodePoint(code) == "U+" \o HexString(code, 4)

\* The character U+0008.
Backspace == ""

\* The characters U+0020 to U+007E in code order.
Ascii ==
    <<
      " ", "!", "\"", "#", "$", "%", "&", "'", "(", ")", "*", "+",
      ",", "-", ".", "/", "0", "1", "2", "3", "4", "5", "6", "7",
      "8", "9", ":", ";", "<", "=", ">", "?", "@", "A", "B", "C",
      "D", "E", "F", "G", "H", "I", "J", "K", "L", "M", "N", "O",
      "P", "Q", "R", "S", "T", "U", "V", "W", "X", "Y", "Z", "[",
      "\\", "]", "^", "_", CodePoint(96), "a", "b", "c", "d", "e", "f", "g",
      "h", "i", "j", "k", "l", "m", "n", "o", "p", "q", "r", "s",
      "t", "u", "v", "w", "x", "y", "z", "{", "|", "}", "~"
    >>

\* The character of a code.
CharOf(code) ==
    CASE code = 8 -> Backspace
      [] code = 9 -> "\t"
      [] code = 10 -> "\n"
      [] code = 12 -> "\f"
      [] code = 13 -> "\r"
      [] code >= 32 /\ code <= 126 -> Ascii[code - 31]
      [] OTHER -> CodePoint(code)

\* The code of a character.
CharCode(c) ==
    IF \E x \in 1..Len(Ascii) : Ascii[x] = c
    THEN 31 + (CHOOSE x \in 1..Len(Ascii) : Ascii[x] = c)
    ELSE CHOOSE code \in 0..1114111 : CharOf(code) = c

\* The characters json.Marshal writes as \uXXXX besides the control
\* characters: "<", ">", "&", U+2028 and U+2029.
EscapedChars == {"<", ">", "&", CodePoint(8232), CodePoint(8233)}

\* The characters below U+0020.
ControlChars == {CharOf(code) : code \in 0..31}

\* Go's s < t on strings: byte by byte, a proper prefix first (the order of
\* the UTF-8 bytes is the order of the codes).
StringLess(s, t) ==
    IF t = <<>> THEN FALSE
    ELSE IF s = <<>> THEN TRUE
    ELSE IF Head(s) = Head(t) THEN StringLess(Tail(s), Tail(t))
    ELSE CharCode(Head(s)) < CharCode(Head(t))

\* --------------------------------------------------------------- operations

NewOperation(op, path, value) == [op |-> op, path |-> path, value |-> value]

\* ByPath.Less on two operations.
Less(x, y) == StringLess(x.path, y.path)

\* sort.Sort(ByPath(ops)): the operations in ascending order of path; the
\* sort is not stable, operations with one path come out in any order.
ByPath(ops) ==
    IF ops = <<>> THEN {<<>>}
    ELSE UNION {{<<ops[x]>> \o rest :
                   rest \in ByPath(SubSeq(ops, 1, x - 1) \o SubSeq(ops, x + 1, Len(ops)))} :
                x \in {y \in 1..Len(ops) : \A z \in 1..Len(ops) : ~Less(ops[z], ops[y])}}

\* ---------------------------------------------------------------- JSON text
\* A JSON text is the sequence of its characters.

HexChar(d) == <<"0", "1", "2", "3", "4", "5", "6", "7",
                "8", "9", "a", "b", "c", "d", "e", "f">>[d + 1]

\* \uXXXX as json.Marshal writes it.
EscapeU(code) ==
    <<"\\", "u", HexChar(code \div 4096), HexChar((code \div 256) % 16),
      HexChar((code \div 16) % 16), HexChar(code % 16)>>

\* json.Marshal of the characters of a string: quote, backslash and control
\* characters escaped, and "<", ">", "&", U+2028, U+2029 as \uXXXX.
EncodeChars(s) ==
    IF s = <<>> THEN <<>>
    ELSE LET c == Head(s)
         IN (CASE c = "\"" -> <<"\\", "\"">>
               [] c = "\\" -> <<"\\", "\\">>
               [] c = Backspace -> <<"\\", "b">>
               [] c = "\f" -> <<"\\", "f">>
               [] c = "\n" -> <<"\\", "n">>
               [] c = "\r" -> <<"\\", "r">>
               [] c = "\t" -> <<"\\", "t">>
               [] c \in ControlChars \cup EscapedChars -> EscapeU(CharCode(c))
               [] OTHER -> <<c>>) \o EncodeChars(Tail(s))

EncodeString(s) == <<"\"">> \o EncodeChars(s) \o <<"\"">>

\* The keys of a map in the order json.Marshal writes them: sorted.
SortedKeys(S) ==
    IF S = {} THEN <<>>
    ELSE LET first == CHOOSE x \in S : \A y \in S : ~StringLess(y, x)
         IN <<first>> \o SortedKeys(S \ {first})

\* The texts parts[1], parts[2], ... with a comma between two of them.
JoinComma(parts) ==
    IF parts = <<>> THEN <<>>
    ELSE IF Len(parts) = 1 THEN parts[1]
    ELSE parts[1] \o <<",">> \o JoinComma(Tail(parts))

\* json.Marshal of a value.
EncodeValue(v) ==
    CASE v.k = "null" -> <<"n", "u", "l", "l">>
      [] v.k = "bool" -> IF v.b THEN <<"t", "r", "u", "e">> ELSE <<"f", "a", "l", "s", "e">>
      [] v.k = "num" -> IF v.n < 0 THEN <<"-">> \o Itoa(-v.n) ELSE Itoa(v.n)
      [] v.k = "str" -> EncodeString(v.s)
      [] v.k = "arr" ->
            <<"[">> \o JoinComma([x \in 1..Len(v.q) |-> EncodeValue(v.q[x])]) \o <<"]">>
      [] v.k = "obj" ->
            LET keys == SortedKeys(DOMAIN v.m)
            IN <<"{">>
               \o JoinComma([x \in 1..Len(keys) |->
                               EncodeString(keys[x]) \o <<":">> \o EncodeValue(v.m[keys[x]])])
               \o <<"}">>

\* The characters of an operation name.
OperationText(op) ==
    CASE op = "add" -> <<"a", "d", "d">>
      [] op = "remove" -> <<"r", "e", "m", "o", "v", "e">>
      [] op = "replace" -> <<"r", "e", "p", "l", "a", "c", "e">>

\* The text MarshalJSON writes: the operation name and the path go between
\* two quotes as they are, unescaped.
MarshalJSON(j) ==
    <<"{", "\"", "o", "p", "\"", ":", "\"">> \o OperationText(j.op) \o <<"\"">>
    \o <<",", "\"", "p", "a", "t", "h", "\"", ":", "\"">> \o j.path \o <<"\"">>
    \o (IF j.value # Null \/ j.op = "replace" \/ j.op = "add"
        THEN <<",", "\"", "v", "a", "l", "u", "e", "\"", ":">> \o EncodeValue(j.value)
        ELSE <<>>)
    \o <<"}">>

\* ------------------------------------------------------------------ dispatch

typesAreCompatible(av, bv) ==
    CASE av.k = "obj" -> bv.k = "obj"
      [] av.k \in {"str", "num", "bool"} -> bv.k \in {"str", "num", "bool"}
      [] av.k = "arr" -> bv.k = "arr"
      [] OTHER -> FALSE

isBasicType(a) == a.k \in {"str", "num", "bool"}

\* The loop of isSimpleArray from (1-based) position i on.
isSimpleArrayFrom(a, i) ==
    IF i > Len(a) THEN TRUE
    ELSE CASE a[i].k \in {"str", "num", "bool"} -> isSimpleArrayFrom(a, i + 1)
           [] a[i].k = "obj" ->
                \A key \in DOMAIN a[i].m : a[i].m[key] = Null \/ isBasicType(a[i].m[key])
           [] OTHER -> FALSE

isSimpleArray(a) == isSimpleArrayFrom(a, 1)

min(x, y) == IF y < x THEN y ELSE x

\* Every order a range statement can visit the keys of map m in; each range
\* statement draws its own.
RangeOrders(m) == {q \in [1..Cardinality(DOMAIN m) -> DOMAIN m] : Range(q) = DOMAIN m}

\* The first loop of diff leaving the loop after an add instead of going on.
diffTargetLoop_breakOnAdd(a, b, path, patch0, keys, i) ==
    IF i > Len(keys) THEN {patch0}
    ELSE LET key == keys[i]
             p == makePath(path, key)
         IN IF key \notin DOMAIN a
            THEN {Append(patch0, NewOperation("add", p, b[key]))}
            ELSE UNION {diffTargetLoop(a, b, path, x, keys, i + 1) :
                          x \in handleValues(a[key], b[key], p, patch0)}

\* First loop of diff: the keys of b from position i of the order keys the
\* range visits them in.  The patches the loop can end with.
diffTargetLoop(a, b, path, patch0, keys, i) ==
    IF i > Len(keys) THEN {patch0}
    ELSE LET key == keys[i]
             p == makePath(path, key)
         IN IF key \notin DOMAIN a
            THEN diffTargetLoop(a, b, path,
                                Append(patch0, NewOperation("add", p, b[key])), keys, i + 1)
            ELSE UNION {diffTargetLoop(a, b, path, x, keys, i + 1) :
                          x \in handleValues(a[key], b[key], p, patch0)}

\* The second loop of diff without its test of b: a remove for every key of a.
diffSourceLoop_noFoundTest(a, b, path, patch0, keys) ==
    patch0 \o [x \in 1..Len(keys) |-> NewOperation("remove", makePath(path, keys[x]), Null)]

\* Second loop of diff: a remove for every key of a that b lacks, the keys
\* of a visited in the order keys.
diffSourceLoop(a, b, path, patch0, keys) ==
    LET gone == SelectSeq(keys, LAMBDA key : key \notin DOMAIN b)
    IN patch0 \o [x \in 1..Len(gone) |-> NewOperation("remove", makePath(path, gone[x]), Null)]

\* The patches diff can return: one order for the range over b, one for the
\* range over a.
diff(a, b, path, patch0) ==
    UNION {{diffSourceLoop(a, b, path, x, ka) :
              x \in diffTargetLoop(a, b, path, patch0, kb, 1), ka \in RangeOrders(a)} :
           kb \in RangeOrders(b)}

\* Third loop of the positional branch: the aligned pairs from index i (0-based).
positionalPairs(at, bt, p, patch0, i, n) ==
    IF i >= n THEN {patch0}
    ELSE UNION {positionalPairs(at, bt, p, x, i + 1, n) :
                  x \in handleValues(at[i + 1], bt[i + 1], makePathInt(p, i), patch0)}

\* The positional branch removing the surplus elements from the lowest index up.
positionalDiff_ascending(at, bt, p, patch0) ==
    LET n == min(Len(at), Len(bt))
        removes == [x \in 1..(Len(at) - n) |->
                      NewOperation("remove", makePathInt(p, n + x - 1), Null)]
        adds == [x \in 1..(Len(bt) - n) |->
                      NewOperation("add", makePathInt(p, n + x - 1), bt[n + x])]
    IN positionalPairs(at, bt, p, patch0 \o removes \o adds, 0, n)

\* The positional branch of handleValues.
positionalDiff(at, bt, p, patch0) ==
    LET n == min(Len(at), Len(bt))
        removes == [x \in 1..(Len(at) - n) |->
                      NewOperation("remove", makePathInt(p, Len(at) - x), Null)]
        adds == [x \in 1..(Len(bt) - n) |->
                      NewOperation("add", makePathInt(p, n + x - 1), bt[n + x])]
    IN positionalPairs(at, bt, p, patch0 \o removes \o adds, 0, n)

\* Which branch handleValues takes for two arrays.
arrayStrategy(at, bt) ==
    IF isSimpleArray(at) /\ isSimpleArray(bt) THEN "editDistance" ELSE "positional"

\* The patches handleValues can return (more than one only through the map
\* ranges of diff).
handleValues(av, bv, p, patch0) ==
    IF av = Null /\ bv = Null THEN {patch0}
    ELSE IF ~typesAreCompatible(av, bv)
    THEN {Append(patch0, NewOperation("replace", p, bv))}
    ELSE CASE av.k = "obj" -> diff(av.m, bv.m, p, patch0)
           [] av.k \in {"str", "num", "bool"} ->
                IF ~matchesValue(av, bv)
                THEN {Append(patch0, NewOperation("replace", p, bv))}
                ELSE {patch0}
           [] av.k = "arr" ->
                IF arrayStrategy(av.q, bv.q) = "editDistance"
                THEN {patch0 \o x : x \in compareEditDistance(av.q, bv.q, p)}
                ELSE positionalDiff(av.q, bv.q, p, patch0)

\* ------------------------------------------------------------ edit distance

\* d[i][0] = i and d[0][j] = j, every other cell still zero.
initMatrix(m, n) ==
    [i \in 0..m |-> [j \in 0..n |-> IF j = 0 THEN i ELSE IF i = 0 THEN j ELSE 0]]

\* The loops of compareEditDistance with the deletion cost left out of the minimum.
fillMatrix_noDel(d, s, t, i, j) ==
    IF j > Len(t) THEN d
    ELSE IF i > Len(s) THEN fillMatrix(d, s, t, 1, j + 1)
    ELSE LET add == d[i][j - 1] + 1
             rep == d[i - 1][j - 1] + 1
             cell == IF matchesValue(s[i], t[j]) THEN d[i - 1][j - 1]
                     ELSE min(rep, add)
         IN fillMatrix([d EXCEPT ![i][j] = cell], s, t, i + 1, j)

\* The nested loops of compareEditDistance from cell (i, j): j outer, i inner.
fillMatrix(d, s, t, i, j) ==
    IF j > Len(t) THEN d
    ELSE IF i > Len(s) THEN fillMatrix(d, s, t, 1, j + 1)
    ELSE LET del == d[i - 1][j] + 1
             add == d[i][j - 1] + 1
             rep == d[i - 1][j - 1] + 1
             cell == IF matchesValue(s[i], t[j]) THEN d[i - 1][j - 1]
                     ELSE min(rep, min(add, del))
         IN fillMatrix([d EXCEPT ![i][j] = cell], s, t, i + 1, j)

editMatrix(s, t) == fillMatrix(initMatrix(Len(s), Len(t)), s, t, 1, 1)

\* The operation lists backtrace can return from cell (i, j).
backtrace(s, t, p, i, j, matrix) ==
    IF i > 0 /\ matrix[i - 1][j] + 1 = matrix[i][j]
    THEN {<<NewOperation("remove", makePathInt(p, i - 1), Null)>> \o rest :
            rest \in backtrace(s, t, p, i - 1, j, matrix)}
    ELSE IF j > 0 /\ matrix[i][j - 1] + 1 = matrix[i][j]
    THEN {<<NewOperation("add", makePathInt(p, i), t[j])>> \o rest :
            rest \in backtrace(s, t, p, i, j - 1, matrix)}
    ELSE IF i > 0 /\ j > 0 /\ matrix[i - 1][j - 1] + 1 = matrix[i][j]
    THEN IF isBasicType(s[1])
         THEN {<<NewOperation("replace", makePathInt(p, i - 1), t[j])>> \o rest :
                 rest \in backtrace(s, t, p, i - 1, j - 1, matrix)}
         ELSE {p2 \o rest :
                 p2 \in handleValues(s[i], t[j], makePathInt(p, i - 1), <<>>),
                 rest \in backtrace(s, t, p, i - 1, j - 1, matrix)}
    ELSE IF i > 0 /\ j > 0 /\ matrix[i - 1][j - 1] = matrix[i][j]
    THEN backtrace(s, t, p, i - 1, j - 1, matrix)
    ELSE {<<>>}

compareEditDistance(s, t, p) ==
    backtrace(s, t, p, Len(s), Len(t), editMatrix(s, t))

\* The patches CreatePatch(a, b) can return.
CreatePatch(a, b) == handleValues(a, b, <<>>, <<>>)

\* --------------------------------------------------------------- JSON reader
\* What encoding/json makes of a text, read from position i (1-based) on: ok,
\* the value v read and the position i after it.

Fail == [ok |-> FALSE, v |-> Null, i |-> 0]
Read(value, next) == [ok |-> TRUE, v |-> value, i |-> next]

RECURSIVE SkipSpace(_, _)
RECURSIVE ParseString(_, _, _)
RECURSIVE ParseEscape(_, _, _, _, _)
RECURSIVE ParseDigits(_, _, _, _)
RECURSIVE ParseValue(_, _)
RECURSIVE ParseMembers(_, _, _)
RECURSIVE AfterName(_, _, _)
RECURSIVE AfterMember(_, _, _, _)
RECURSIVE ParseElements(_, _, _)
RECURSIVE AfterElement(_, _, _)
RECURSIVE Pow10(_)
RECURSIVE Gcd(_, _)

SkipSpace(t, i) ==
    IF i <= Len(t) /\ t[i] \in {" ", "\t", "\n", "\r"} THEN SkipSpace(t, i + 1) ELSE i

IsHex(c) == c \in Digits \cup {"a", "b", "c", "d", "e", "f", "A", "B", "C", "D", "E", "F"}

HexValue(c) ==
    CASE c \in {"a", "A"} -> 10
      [] c \in {"b", "B"} -> 11
      [] c \in {"c", "C"} -> 12
      [] c \in {"d", "D"} -> 13
      [] c \in {"e", "E"} -> 14
      [] c \in {"f", "F"} -> 15
      [] OTHER -> DigitValue(c)

\* getu4: the code of the \uXXXX at position i, -1 if there is none.
getu4(t, i) ==
    IF i + 5 <= Len(t) /\ t[i] = "\\" /\ t[i + 1] = "u"
       /\ \A x \in (i + 2)..(i + 5) : IsHex(t[x])
    THEN ((HexValue(t[i + 2]) * 16 + HexValue(t[i + 3])) * 16 + HexValue(t[i + 4])) * 16
         + HexValue(t[i + 5])
    ELSE -1

\* utf16.IsSurrogate
IsSurrogate(r) == r >= 55296 /\ r < 57344

\* utf16.DecodeRune: the code of a surrogate pair, U+FFFD if it is none.
DecodeRune(r1, r2) ==
    IF r1 >= 55296 /\ r1 < 56320 /\ r2 >= 56320 /\ r2 < 57344
    THEN (r1 - 55296) * 1024 + (r2 - 56320) + 65536
    ELSE 65533

\* The characters a JSON reader takes after a backslash, and what they read as.
Escapes ==
    [c \in {"\"", "\\", "/", "b", "f", "n", "r", "t"} |->
       CASE c = "b" -> Backspace
         [] c = "f" -> "\f"
         [] c = "n" -> "\n"
         [] c = "r" -> "\r"
         [] c = "t" -> "\t"
         [] OTHER -> c]

\* The characters that end a run of plain characters inside a string.
StringStops == {"\"", "\\"} \cup ControlChars

\* The first position from i on whose character is in the set stops,
\* Len(t) + 1 if there is none.
FirstOf(t, i, stops) ==
    IF \E x \in i..Len(t) : t[x] \in stops
    THEN CHOOSE x \in i..Len(t) : t[x] \in stops /\ \A y \in i..(x - 1) : t[y] \notin stops
    ELSE Len(t) + 1

\* The string goes on after a backslash at position j; run: read so far,
\* rr and r2: the codes of the \uXXXX at j and at j + 6, -1 where there is
\* none.
ParseEscape(t, j, run, rr, r2) ==
    CASE j + 1 <= Len(t) /\ t[j + 1] \in DOMAIN Escapes ->
              ParseString(t, j + 2, Append(run, Escapes[t[j + 1]]))
      [] rr < 0 -> Fail
      [] ~IsSurrogate(rr) -> ParseString(t, j + 6, Append(run, CharOf(rr)))
      [] DecodeRune(rr, r2) # 65533 ->
              ParseString(t, j + 12, Append(run, CharOf(DecodeRune(rr, r2))))
      [] OTHER -> ParseString(t, j + 6, Append(run, CharOf(65533)))

\* The string from position i on, its next quote, backslash or control
\* character at position j.
StringAt(t, i, acc, j) ==
    CASE j > Len(t) -> Fail
      [] t[j] = "\"" -> Read(acc \o SubSeq(t, i, j - 1), j + 1)
      [] t[j] = "\\" ->
              ParseEscape(t, j, acc \o SubSeq(t, i, j - 1), getu4(t, j), getu4(t, j + 6))
      [] OTHER -> Fail

\* A string from the character after its opening quote; acc: read so far.
\* Plain characters are taken a run at a time, up to the next quote,
\* backslash or control character.
ParseString(t, i, acc) == StringAt(t, i, acc, FirstOf(t, i, StringStops))

\* The digits from position i on: their value after acc, how many, the next
\* position.
ParseDigits(t, i, acc, count) ==
    IF i <= Len(t) /\ t[i] \in Digits
    THEN ParseDigits(t, i + 1, acc * 10 + DigitValue(t[i]), count + 1)
    ELSE [value |-> acc, count |-> count, i |-> i]

Pow10(e) == IF e = 0 THEN 1 ELSE 10 * Pow10(e - 1)

Gcd(x, y) == IF y = 0 THEN x ELSE Gcd(y, x % y)

\* The number mantissa * 10^exponent: a whole number as Num, any other as the
\* fraction f = <<numerator, denominator>> in lowest terms.
NumberValue(mantissa, exponent) ==
    IF exponent >= 0 THEN Num(mantissa * Pow10(exponent))
    ELSE LET den == Pow10(-exponent)
             g == Gcd(IF mantissa < 0 THEN -mantissa ELSE mantissa, den)
         IN IF g = den THEN Num(mantissa \div den)
            ELSE [k |-> "num", f |-> <<mantissa \div g, den \div g>>]

\* The number whose integer part int, fraction digits frac and exponent
\* digits exp have been read; neg, hasFrac, hasExp, negExp: it has a minus
\* sign, a point, an exponent, a minus sign in the exponent.
NumberOf(neg, lead, int, hasFrac, frac, hasExp, negExp, exp) ==
    IF int.count = 0 \/ (int.count > 1 /\ lead = "0") THEN Fail
    ELSE IF hasFrac /\ frac.count = 0 THEN Fail
    ELSE IF hasExp /\ exp.count = 0 THEN Fail
    ELSE Read(NumberValue(IF neg THEN -frac.value ELSE frac.value,
                          (IF negExp THEN -exp.value ELSE exp.value) - frac.count),
              exp.i)

\* The exponent of a number whose integer part and fraction have been read.
NumberExp(t, neg, lead, int, hasFrac, frac, hasExp, signed) ==
    NumberOf(neg, lead, int, hasFrac, frac, hasExp,
             signed /\ t[frac.i + 1] = "-",
             IF hasExp THEN ParseDigits(t, frac.i + (IF signed THEN 2 ELSE 1), 0, 0)
             ELSE [value |-> 0, count |-> 0, i |-> frac.i])

\* The fraction of a number whose integer part has been read.
NumberFrac(t, neg, lead, int, hasFrac, frac) ==
    NumberExp(t, neg, lead, int, hasFrac, frac,
              frac.i <= Len(t) /\ t[frac.i] \in {"e", "E"},
              frac.i <= Len(t) /\ t[frac.i] \in {"e", "E"}
                 /\ frac.i + 1 <= Len(t) /\ t[frac.i + 1] \in {"+", "-"})

\* The integer part of a number, from position i1 on.
NumberInt(t, neg, i1, int, hasFrac) ==
    NumberFrac(t, neg, IF i1 <= Len(t) THEN t[i1] ELSE "", int, hasFrac,
               IF hasFrac THEN ParseDigits(t, int.i + 1, int.value, 0)
               ELSE [value |-> int.value, count |-> 0, i |-> int.i])

\* The number from position i1 on, after its sign.
NumberAt(t, neg, i1, int) ==
    NumberInt(t, neg, i1, int, int.i <= Len(t) /\ t[int.i] = ".")

\* A number from position i on: -? int frac? exp?
ParseNumber(t, i) ==
    IF t[i] = "-" THEN NumberAt(t, TRUE, i + 1, ParseDigits(t, i + 1, 0, 0))
    ELSE NumberAt(t, FALSE, i, ParseDigits(t, i, 0, 0))

\* Whether the characters word stand at position i.
HasWord(t, i, word) ==
    i + Len(word) - 1 <= Len(t) /\ \A x \in 1..Len(word) : t[i + x - 1] = word[x]

\* The object goes on after the member key with the value val: "}" ends it
\* and "," brings the next member; a later member of one name replaces an
\* earlier.
AfterMember(t, m, key, val) ==
    IF ~val.ok \/ val.i > Len(t) THEN Fail
    ELSE IF t[val.i] = "}"
    THEN Read(Obj([x \in DOMAIN m \cup {key} |-> IF x = key THEN val.v ELSE m[x]]),
              val.i + 1)
    ELSE IF t[val.i] = ","
    THEN ParseMembers(t, val.i + 1,
                      [x \in DOMAIN m \cup {key} |-> IF x = key THEN val.v ELSE m[x]])
    ELSE Fail

\* What has been read, with the space after it skipped.
SpaceAfter(t, res) == IF res.ok THEN Read(res.v, SkipSpace(t, res.i)) ELSE Fail

\* The value read from position i on, with the space after it skipped.
ValueThenSpace(t, i) == SpaceAfter(t, ParseValue(t, i))

\* The object goes on after the member name key: ":" and the value.
AfterName(t, m, key) ==
    IF ~key.ok \/ key.i > Len(t) \/ t[key.i] # ":" THEN Fail
    ELSE AfterMember(t, m, key.v, ValueThenSpace(t, key.i + 1))

\* The members of an object from position i on (after "{" or ","); m: the
\* members read so far.
ParseMembers(t, i, m) ==
    IF SkipSpace(t, i) > Len(t) \/ t[SkipSpace(t, i)] # "\"" THEN Fail
    ELSE AfterName(t, m, SpaceAfter(t, ParseString(t, SkipSpace(t, i) + 1, <<>>)))

\* The array goes on after the element val: "]" ends it and "," brings the
\* next element.
AfterElement(t, q, val) ==
    IF ~val.ok \/ val.i > Len(t) THEN Fail
    ELSE IF t[val.i] = "]" THEN Read(Arr(Append(q, val.v)), val.i + 1)
    ELSE IF t[val.i] = "," THEN ParseElements(t, val.i + 1, Append(q, val.v))
    ELSE Fail

\* The elements of an array from position i on (after "[" or ","); q: the
\* elements read so far.
ParseElements(t, i, q) == AfterElement(t, q, ValueThenSpace(t, i))

\* A string read as a value.
StringValue(str) == IF str.ok THEN Read(Str(str.v), str.i) ELSE Fail

\* The value that starts at position i, no space before it.
ValueAt(t, i) ==
    IF i > Len(t) THEN Fail
    ELSE CASE t[i] = "{" ->
                IF SkipSpace(t, i + 1) <= Len(t) /\ t[SkipSpace(t, i + 1)] = "}"
                THEN Read(Obj(<<>>), SkipSpace(t, i + 1) + 1)
                ELSE ParseMembers(t, i + 1, <<>>)
           [] t[i] = "[" ->
                IF SkipSpace(t, i + 1) <= Len(t) /\ t[SkipSpace(t, i + 1)] = "]"
                THEN Read(Arr(<<>>), SkipSpace(t, i + 1) + 1)
                ELSE ParseElements(t, i + 1, <<>>)
           [] t[i] = "\"" -> StringValue(ParseString(t, i + 1, <<>>))
           [] t[i] = "-" \/ t[i] \in Digits -> ParseNumber(t, i)
           [] HasWord(t, i, <<"t", "r", "u", "e">>) -> Read(Bool(TRUE), i + 4)
           [] HasWord(t, i, <<"f", "a", "l", "s", "e">>) -> Read(Bool(FALSE), i + 5)
           [] HasWord(t, i, <<"n", "u", "l", "l">>) -> Read(Null, i + 4)
           [] OTHER -> Fail

\* One JSON value from position i on.
ParseValue(t, i) == ValueAt(t, SkipSpace(t, i))

\* The value read is the whole text: nothing but space after it.
WholeText(t, val) == IF val.ok /\ SkipSpace(t, val.i) > Len(t) THEN val ELSE Fail

\* json.Unmarshal of a whole text: one value and nothing but space after it.
ParseJSON(t) == WholeText(t, ParseValue(t, 1))

\* The characters json.Marshal's compaction acts on, inside a string and
\* outside one.
QuotedStops == EscapedChars \cup {"\"", "\\"}
PlainStops == EscapedChars \cup {"\"", " ", "\t", "\n", "\r"}

RECURSIVE Compact(_, _, _)
\* What json.Marshal keeps of a JSON text a MarshalJSON wrote, from position
\* i on: no space outside strings, and "<", ">", "&", U+2028, U+2029 as
\* \uXXXX.  quoted: position i is inside a string.  The characters it leaves
\* alone are taken a run at a time.
Compact(t, i, quoted) ==
    LET j == FirstOf(t, i, IF quoted THEN QuotedStops ELSE PlainStops)
        run == SubSeq(t, i, j - 1)
    IN CASE j > Len(t) -> run
         [] t[j] \in EscapedChars ->
              run \o EscapeU(CharCode(t[j])) \o Compact(t, j + 1, quoted)
         [] t[j] = "\\" /\ j < Len(t) ->
              run \o <<t[j], t[j + 1]>> \o Compact(t, j + 2, quoted)
         [] t[j] = "\"" -> run \o <<t[j]>> \o Compact(t, j + 1, ~quoted)
         [] t[j] = "\\" -> run \o <<t[j]>> \o Compact(t, j + 1, quoted)
         [] OTHER -> run \o Compact(t, j + 1, quoted)

\* json.Marshal(patch): "null" for a nil patch, else the texts of the
\* operations, compacted, in brackets; no data (and an error) when a text
\* an operation wrote is not JSON.
MarshalPatch(ops, isNil) ==
    IF isNil THEN <<"n", "u", "l", "l">>
    ELSE LET texts == [x \in 1..Len(ops) |-> MarshalJSON(ops[x])]
         IN IF \E x \in 1..Len(ops) : ~ParseJSON(texts[x]).ok THEN <<>>
            ELSE <<"[">>
                 \o JoinComma([x \in 1..Len(ops) |-> Compact(texts[x], 1, FALSE)])
                 \o <<"]">>

\* Whether a value read is a patch: an array of objects (or nulls).
IsPatch(val) ==
    val.ok /\ val.v.k = "arr"
    /\ \A x \in 1..Len(val.v.q) : val.v.q[x].k \in {"obj", "null"}

\* The patch and the error of DecodePatch for the value read from its text.
PatchOf(val) ==
    [ops |-> IF IsPatch(val) THEN val.v.q ELSE <<>>,
     err |-> ~(IsPatch(val) \/ (val.ok /\ val.v = Null))]

\* jp.DecodePatch(data): the operations read from the text, each the object
\* of its members, and whether it returns an error; no operation when the
\* text is "null" or cannot be read as an array of objects.
DecodePatch(text) == PatchOf(ParseJSON(text))

\* ------------------------------------------------- RFC 6902 patch application
\* The test harness hands the marshalled patch to an RFC 6902 applier
\* (check: jp.DecodePatch, Patch.Apply) and compares the result with dst.

Err == [k |-> "error"]

RECURSIVE SplitSlash(_, _)
RECURSIVE ReplaceEscape(_, _, _)
RECURSIVE ParseIndex(_, _)
RECURSIVE ApplyAt(_, _, _, _)

\* strings.Split(s, "/") with cur the token being read.
SplitSlash(s, cur) ==
    IF s = <<>> THEN <<cur>>
    ELSE IF Head(s) = "/" THEN <<cur>> \o SplitSlash(Tail(s), <<>>)
    ELSE SplitSlash(Tail(s), Append(cur, Head(s)))

\* strings.Replace(s, "~" + c, to, -1)
ReplaceEscape(s, c, to) ==
    IF s = <<>> THEN <<>>
    ELSE IF Len(s) >= 2 /\ s[1] = "~" /\ s[2] = c
    THEN <<to>> \o ReplaceEscape(Tail(Tail(s)), c, to)
    ELSE <<Head(s)>> \o ReplaceEscape(Tail(s), c, to)

\* RFC 6901 section 4: first "~1" to "/", then "~0" to "~".
DecodeToken(tok) == ReplaceEscape(ReplaceEscape(tok, "1", "/"), "0", "~")

\* A pointer is the whole document (""), or starts with "/".
ValidPointer(path) == path = <<>> \/ Head(path) = "/"

\* The reference tokens of a valid pointer; <<>> for the whole document.
ParsePointer(path) ==
    IF path = <<>> THEN <<>>
    ELSE LET raw == SplitSlash(Tail(path), <<>>)
         IN [x \in 1..Len(raw) |-> DecodeToken(raw[x])]

\* The array index a token spells (acc: the value read so far), -1 if none.
ParseIndex(tok, acc) ==
    IF tok = <<>> THEN acc
    ELSE IF Head(tok) \notin Digits THEN -1
    ELSE ParseIndex(Tail(tok), acc * 10 + DigitValue(Head(tok)))

IndexOf(tok) == IF tok = <<>> THEN -1 ELSE ParseIndex(tok, 0)

SetKey(f, key, value) == [x \in DOMAIN f \cup {key} |-> IF x = key THEN value ELSE f[x]]
DelKey(f, key) == [x \in DOMAIN f \ {key} |-> f[x]]
InsertAt(q, i, value) == SubSeq(q, 1, i) \o <<value>> \o SubSeq(q, i + 1, Len(q))
RemoveAt(q, i) == SubSeq(q, 1, i) \o SubSeq(q, i + 2, Len(q))
SetAt(q, i, value) == [q EXCEPT ![i + 1] = value]

\* One operation at the last reference token tok of its pointer, in container c.
ApplyLast(c, tok, op, value) ==
    CASE c.k = "obj" ->
            IF op = "add" THEN Obj(SetKey(c.m, tok, value))
            ELSE IF tok \notin DOMAIN c.m THEN Err
            ELSE IF op = "replace" THEN Obj(SetKey(c.m, tok, value))
            ELSE Obj(DelKey(c.m, tok))
      [] c.k = "arr" ->
            LET i == IndexOf(tok) IN
            IF op = "add"
            THEN IF tok = <<"-">> THEN Arr(Append(c.q, value))
                 ELSE IF i < 0 \/ i > Len(c.q) THEN Err
                 ELSE Arr(InsertAt(c.q, i, value))
            ELSE IF i < 0 \/ i >= Len(c.q) THEN Err
            ELSE IF op = "replace" THEN Arr(SetAt(c.q, i, value))
            ELSE Arr(RemoveAt(c.q, i))
      [] OTHER -> Err

\* The document c with op applied at the location the tokens toks name.
ApplyAt(c, toks, op, value) ==
    IF c = Err THEN Err
    ELSE IF toks = <<>> THEN (IF op = "remove" THEN Err ELSE value)
    ELSE IF Len(toks) = 1 THEN ApplyLast(c, toks[1], op, value)
    ELSE CASE c.k = "obj" ->
                IF toks[1] \notin DOMAIN c.m THEN Err
                ELSE LET sub == ApplyAt(c.m[toks[1]], Tail(toks), op, value)
                     IN IF sub = Err THEN Err ELSE Obj(SetKey(c.m, toks[1], sub))
           [] c.k = "arr" ->
                LET i == IndexOf(toks[1]) IN
                IF i < 0 \/ i >= Len(c.q) THEN Err
                ELSE LET sub == ApplyAt(c.q[i + 1], Tail(toks), op, value)
                     IN IF sub = Err THEN Err ELSE Arr(SetAt(c.q, i, sub))
           [] OTHER -> Err

OpName == <<"o", "p">>
PathName == <<"p", "a", "t", "h">>
ValueName == <<"v", "a", "l", "u", "e">>

\* Whether a decoded operation has a member of the name.
HasMember(o, name) == o.k = "obj" /\ name \in DOMAIN o.m

\* A member of a decoded operation.
Member(o, name) == o.m[name]

\* The operation kind a decoded operation names, "unknown" if none.
Kind(o) ==
    IF HasMember(o, OpName) /\ Member(o, OpName).k = "str"
    THEN CASE Member(o, OpName).s = OperationText("add") -> "add"
           [] Member(o, OpName).s = OperationText("remove") -> "remove"
           [] Member(o, OpName).s = OperationText("replace") -> "replace"
           [] OTHER -> "unknown"
    ELSE "unknown"

\* One decoded operation applied to document c.
ApplyOperation(c, o) ==
    IF Kind(o) = "unknown" THEN Err
    ELSE IF ~(HasMember(o, PathName) /\ Member(o, PathName).k = "str") THEN Err
    ELSE LET path == Member(o, PathName).s IN
         IF ~ValidPointer(path) THEN Err
         ELSE IF Kind(o) = "remove" THEN ApplyAt(c, ParsePointer(path), "remove", Null)
         ELSE IF ~HasMember(o, ValueName) THEN Err
         ELSE ApplyAt(c, ParsePointer(path), Kind(o), Member(o, ValueName))

\* ----------------------------------------------------------- input families

KeyEmpty == <<>>
KeyEsc == <<"~", "/">>
Keys == {KeyEmpty, KeyEsc}

\* Keys whose path, written unescaped between two quotes, makes a text that
\* is not JSON, reads back as another path, or goes on with further members.
KeyQuote == <<"\"">>
KeyBackslash == <<"\\", "n">>
KeyInject ==
    <<"a", "\"", ",", "\"", "v", "a", "l", "u", "e", "\"", ":", "2", ",",
      "\"", "z", "\"", ":", "\"">>

Scalars == {Num(1), Num(2), Str(<<"x">>)}

ObjectsWith(K, V, most) ==
    {Obj(f) : f \in UNION {[D -> V] : D \in {X \in SUBSET K : Cardinality(X) <= most}}}

ObjectsOver(V, most) == ObjectsWith(Keys, V, most)

ArraysOver(V, most) == {Arr(q) : q \in UNION {[1..l -> V] : l \in 0..most}}

\* Objects whose members are null, scalars or small objects, and objects
\* with one member under a key of the second kind.
ObjectFamily ==
    ObjectsOver({Null, Bool(TRUE)} \cup Scalars \cup ObjectsOver({Num(1), Num(2)}, 1)
                   \cup {Obj([x \in Keys |-> Num(1)])}, 2)
    \cup ObjectsWith({KeyQuote, KeyBackslash, KeyInject}, {Num(1), Num(2)}, 1)

\* Arrays whose elements are scalars, flat objects, null or arrays.
MixedFamily ==
    ArraysOver({Num(1), Null, Arr(<<Num(1)>>)}
                  \cup {Obj([x \in {KeyEsc} |-> y]) : y \in {Num(1), Num(2), Null}},
               MaxMixed)

\* Arrays of scalars.
ScalarFamily == ArraysOver(Scalars, MaxLen)

\* Arrays of scalars and arrays, the sources longer than the targets.
NestedElements == {Num(1), Str(<<"x">>), Arr(<<Num(1)>>), Arr(<<>>)}
NestedSources == ArraysOver(NestedElements, MaxNested)
NestedTargets == ArraysOver(NestedElements, MaxNestedTarget)

\* ------------------------------------------------------------ state machine

InitWith(F, G) ==
    /\ src \in F \cup {Invalid}
    /\ dst \in G \cup {Invalid}
    /\ patch = <<>>
    /\ prev = <<>>
    /\ calls = 0
    /\ data = <<>>
    /\ decoded = <<>>
    /\ doc = src
    /\ applied = 0
    /\ failed = {}
    /\ pc = "create"

\* CreatePatchFromBytes returned errBadJSONDoc and a nil patch.
BadDoc == src = Invalid \/ dst = Invalid

\* CreatePatchFromBytes(src, dst): errBadJSONDoc for a text that is no JSON,
\* else one of the patches CreatePatch can return.  check records a failed
\* assertion and goes on.
Create ==
    /\ pc = "create"
    /\ IF BadDoc
       THEN patch' = <<>> /\ failed' = {"create"}
       ELSE (\E x \in CreatePatch(src, dst) : patch' = x) /\ failed' = {}
    /\ prev' = patch
    /\ calls' = calls + 1
    /\ data' = <<>>
    /\ decoded' = <<>>
    /\ doc' = src
    /\ applied' = 0
    /\ pc' = "marshal"
    /\ UNCHANGED <<src, dst>>

\* sort.Sort(ByPath(patch)): the patch is reordered in place; the tests that
\* sort require CreatePatchFromBytes to have returned no error, read the
\* patch and stop.
Sort ==
    /\ pc = "marshal"
    /\ ~BadDoc
    /\ \E sorted \in ByPath(patch) : patch' = sorted
    /\ pc' = "sorted"
    /\ UNCHANGED <<src, dst, prev, calls, data, decoded, doc, applied, failed>>

\* json.Marshal(patch).
Marshal ==
    /\ pc = "marshal"
    /\ data' = MarshalPatch(patch, BadDoc)
    /\ failed' = failed \cup (IF data' = <<>> THEN {"marshal"} ELSE {})
    /\ pc' = "decode"
    /\ UNCHANGED <<src, dst, patch, prev, calls, decoded, doc, applied>>

\* check keeps the patch DecodePatch returned and records its error.
Decoded(res) ==
    /\ decoded' = res.ops
    /\ failed' = failed \cup (IF res.err THEN {"decode"} ELSE {})

\* jp.DecodePatch(data), and Apply reading the document src.
Decode ==
    /\ pc = "decode"
    /\ Decoded(DecodePatch(data))
    /\ doc' = IF src = Invalid THEN Err ELSE src
    /\ pc' = "apply"
    /\ UNCHANGED <<src, dst, patch, prev, calls, data, applied>>

\* The applier takes the next operation of the decoded patch.
Apply ==
    /\ pc = "apply"
    /\ applied < Len(decoded)
    /\ doc' = ApplyOperation(doc, decoded[applied + 1])
    /\ applied' = applied + 1
    /\ UNCHANGED <<src, dst, patch, prev, calls, data, decoded, failed, pc>>

\* The applier has gone through the patch; check compares the document
\* with dst.
Finish ==
    /\ pc = "apply"
    /\ applied = Len(decoded)
    /\ failed' = failed \cup (IF doc = Err THEN {"apply"} ELSE {})
                        \cup (IF doc # dst THEN {"equal"} ELSE {})
    /\ pc' = "done"
    /\ UNCHANGED <<src, dst, patch, prev, calls, data, decoded, doc, applied>>

\* The harness runs again on the same inputs.
Again ==
    /\ pc = "done"
    /\ calls < MaxCalls
    /\ pc' = "create"
    /\ UNCHANGED <<src, dst, patch, prev, calls, data, decoded, doc, applied, failed>>

Next == Create \/ Sort \/ Marshal \/ Decode \/ Apply \/ Finish \/ Again

Init == InitWith(ObjectFamily, ObjectFamily)
Spec == Init /\ [][Next]_vars

InitMixed == InitWith(MixedFamily, MixedFamily)
SpecMixed == InitMixed /\ [][Next]_vars

InitScalar == InitWith(ScalarFamily, ScalarFamily)
SpecScalar == InitScalar /\ [][Next]_vars

InitNested == InitWith(NestedSources, NestedTargets)
SpecNested == InitNested /\ [][Next]_vars

\* ------------------------------------------------------------------ claims

\* CreatePatch has just returned patch for the current inputs.
Created == pc = "marshal" /\ ~BadDoc

\* C1: applying the operations of CreatePatch(src, dst) to src, one after
\* another in the emitted order, yields dst (both directions: the families
\* hold (A, B) and (B, A)).
C1_RoundTrip == (pc = "done" /\ ~BadDoc) => doc = dst

\* C2: CreatePatch(A, A) returns no operation.
C2_Identity == (Created /\ src = dst) => patch = <<>>

\* ---- C3

RECURSIVE Levenshtein(_, _, _, _)
\* The edit distance between the first i elements of s and the first j of t
\* by its defining recurrence: unit cost insert, delete and substitute,
\* elements equal as values cost nothing.
Levenshtein(s, t, i, j) ==
    IF i = 0 THEN j
    ELSE IF j = 0 THEN i
    ELSE min(Levenshtein(s, t, i - 1, j - 1) + (IF s[i] = t[j] THEN 0 ELSE 1),
             min(Levenshtein(s, t, i - 1, j) + 1, Levenshtein(s, t, i, j - 1) + 1))

IsScalarArray(a) == a.k = "arr" /\ \A i \in 1..Len(a.q) : isBasicType(a.q[i])

\* C3: for two arrays of scalars the number of operations emitted equals
\* d[len(s)][len(t)], and that number is the Levenshtein distance of s and t.
C3_MinimalScalarEdit ==
    (Created /\ IsScalarArray(src) /\ IsScalarArray(dst)) =>
        /\ Len(patch) = editMatrix(src.q, dst.q)[Len(src.q)][Len(dst.q)]
        /\ Len(patch) = Levenshtein(src.q, dst.q, Len(src.q), Len(dst.q))

\* Three elements turned into one other element: two removes and a replace.
C3_Witness ==
    /\ Created /\ IsScalarArray(src) /\ IsScalarArray(dst)
    /\ Len(src.q) = 3 /\ Len(dst.q) = 1 /\ dst.q[1] \notin Range(src.q)
    /\ Len(patch) = 3
    /\ {patch[i].op : i \in 1..3} = {"remove", "replace"}

\* ---- C4

Count(o, q) == Cardinality({i \in 1..Len(q) : q[i] = o})

\* The two sequences hold the same operations the same number of times.
SameBag(p1, p2) ==
    \A o \in Range(p1) \cup Range(p2) : Count(o, p1) = Count(o, p2)

\* The one patch handleValues returns for two values that are not both objects.
TheOne(S) == CHOOSE x \in S : TRUE

\* Member key is null on exactly one side.
NullTransition(key) ==
    /\ src.k = "obj" /\ dst.k = "obj"
    /\ key \in DOMAIN src.m /\ key \in DOMAIN dst.m
    /\ (src.m[key] = Null) # (dst.m[key] = Null)

\* C4: a member that is null on one side and not on the other accounts for
\* exactly one operation of the patch, a replace at the member's path with
\* the target value (the patch is that replace plus the patch of the two
\* objects without the member); a marshalled add or replace has a "value"
\* member, null included, and a marshalled remove has none.
C4_NullTransition ==
    /\ (Created /\ src.k = "obj" /\ dst.k = "obj") =>
         \A key \in DOMAIN src.m : NullTransition(key) =>
            \E rest \in CreatePatch(Obj(DelKey(src.m, key)), Obj(DelKey(dst.m, key))) :
               SameBag(patch,
                       <<NewOperation("replace", makePath(<<>>, key), dst.m[key])>> \o rest)
    /\ (pc \in {"apply", "done"} /\ failed \cap {"create", "marshal"} = {}) =>
         /\ Len(decoded) = Len(patch)
         /\ \A i \in 1..Len(patch) :
              /\ patch[i].op \in {"add", "replace"} =>
                    /\ HasMember(decoded[i], ValueName)
                    /\ Member(decoded[i], ValueName) = patch[i].value
              /\ patch[i].op = "remove" => ~HasMember(decoded[i], ValueName)

\* ---- C5

RECURSIVE ConcatOver(_, _)
\* The sequences f[key], key over the set S, one after another.
ConcatOver(f, S) ==
    IF S = {} THEN <<>>
    ELSE LET key == CHOOSE x \in S : TRUE IN f[key] \o ConcatOver(f, S \ {key})

RECURSIVE ExpectedDiff(_, _, _)
\* What the claim says diff emits for objects a and b at path p, key by key:
\* for a key of both whose members are objects, the same again one level
\* down; for any other key of both, what handleValues gives.
ExpectedDiff(a, b, p) ==
    ConcatOver([key \in DOMAIN a \cup DOMAIN b |->
                  IF key \notin DOMAIN a
                  THEN <<[op |-> "add", path |-> makePath(p, key), value |-> b[key]]>>
                  ELSE IF key \notin DOMAIN b
                  THEN <<[op |-> "remove", path |-> makePath(p, key), value |-> Null]>>
                  ELSE IF isBasicType(a[key]) /\ isBasicType(b[key])
                  THEN IF a[key] = b[key] THEN <<>>
                       ELSE <<[op |-> "replace", path |-> makePath(p, key), value |-> b[key]]>>
                  ELSE IF a[key].k = "obj" /\ b[key].k = "obj"
                  THEN ExpectedDiff(a[key].m, b[key].m, makePath(p, key))
                  ELSE TheOne(handleValues(a[key], b[key], makePath(p, key), <<>>))],
               DOMAIN a \cup DOMAIN b)

\* C5: the patch of two objects holds exactly one add per key only in the
\* target, one remove per key only in the source and, per common key, what
\* handleValues gives for the two members (one replace for unequal scalars,
\* nothing for equal ones); nothing else.
C5_ObjectDiff ==
    (Created /\ src.k = "obj" /\ dst.k = "obj") =>
        SameBag(patch, ExpectedDiff(src.m, dst.m, <<>>))

\* One key added, the other removed.
C5_Witness ==
    /\ Created /\ src.k = "obj" /\ dst.k = "obj"
    /\ DOMAIN src.m \ DOMAIN dst.m # {}
    /\ DOMAIN dst.m \ DOMAIN src.m # {}
    /\ \E i, j \in 1..Len(patch) : patch[i].op = "add" /\ patch[j].op = "remove"

\* ---- C6

\* C6: two invocations on the same inputs return the same sequence.
C6_Determinism == (Created /\ calls >= 2) => patch = prev

\* C6 as amended: two invocations on the same inputs return the same
\* operations the same number of times, in an order that may differ.
C6_SameOperations == (Created /\ calls >= 2) => SameBag(patch, prev)

\* The second invocation returned the operations of the first in another order.
C6_Witness == Created /\ calls >= 2 /\ patch # prev /\ Len(patch) = 2 /\ SameBag(patch, prev)

\* ---- C7

HasArrayElement(a) == \E i \in 1..Len(a) : a[i].k = "arr"

\* C7: two arrays one of which has an array among its elements are diffed
\* positionally, not by compareEditDistance.
C7_PositionalFallback ==
    (Created /\ src.k = "arr" /\ dst.k = "arr"
        /\ (HasArrayElement(src.q) \/ HasArrayElement(dst.q))) =>
        /\ arrayStrategy(src.q, dst.q) = "positional"
        /\ patch \in positionalDiff(src.q, dst.q, <<>>, <<>>)

\* ---- C8

\* C8: no two operations of one patch have the same path, for every pair of
\* inputs.  (Among objects every key is visited once, so two operations of
\* the patch of two objects can share a path only if makePath gave two
\* members one path.)
C8_NoDuplicatePaths ==
    Created => \A i, j \in 1..Len(patch) : i # j => patch[i].path # patch[j].path

\* ---- C9

\* The pointer without its last token: the container the operation acts in.
Parent(path) == SubSeq(ParsePointer(path), 1, Len(ParsePointer(path)) - 1)
LastIndex(path) == IndexOf(ParsePointer(path)[Len(ParsePointer(path))])

\* C9: the removes on the elements of one array come in strictly descending
\* index order, and each finds its index in the document when the patch is
\* applied from left to right.
C9_RemovalOrder ==
    /\ Created =>
         \A i, j \in 1..Len(patch) :
            (i < j /\ patch[i].op = "remove" /\ patch[j].op = "remove"
                   /\ Parent(patch[i].path) = Parent(patch[j].path)) =>
                LastIndex(patch[i].path) > LastIndex(patch[j].path)
    /\ (pc = "apply" /\ applied < Len(decoded) /\ Kind(decoded[applied + 1]) = "remove") =>
         ApplyOperation(doc, decoded[applied + 1]) # Err

RemovesOf(q) == SelectSeq(q, LAMBDA o : o.op = "remove")

\* Both strategies have emitted removes, about to be applied: the top-level
\* arrays are diffed positionally (two removes), an element pair by edit
\* distance (a third, in another array).
C9_Witness ==
    /\ pc = "apply" /\ applied = 2
    /\ arrayStrategy(src.q, dst.q) = "positional"
    /\ Len(src.q) >= Len(dst.q) + 2
    /\ Len(RemovesOf(patch)) >= 3
    /\ \E i, j \in 1..Len(patch) :
          /\ patch[i].op = "remove" /\ patch[j].op = "remove"
          /\ Parent(patch[i].path) # Parent(patch[j].path)

\* ---- C10

\* At cell (i, j) the traceback takes neither the remove nor the add step
\* and finds a substitution.
SubstitutionCell(matrix, i, j) ==
    /\ i > 0 /\ j > 0
    /\ matrix[i - 1][j] + 1 # matrix[i][j]
    /\ matrix[i][j - 1] + 1 # matrix[i][j]
    /\ matrix[i - 1][j - 1] + 1 = matrix[i][j]

\* C10: when the traceback starts on a substitution cell, the patch starts
\* with one replace of the last source element if that element is a scalar,
\* and with the operations of handleValues on the two last elements if not.
C10_TracebackSubstitution ==
    (Created /\ src.k = "arr" /\ dst.k = "arr"
        /\ arrayStrategy(src.q, dst.q) = "editDistance"
        /\ SubstitutionCell(editMatrix(src.q, dst.q), Len(src.q), Len(dst.q))) =>
        LET i == Len(src.q)
            j == Len(dst.q)
            p == makePathInt(<<>>, i - 1)
        IN patch \in {first \o rest :
                         first \in (IF isBasicType(src.q[i])
                                    THEN {<<NewOperation("replace", p, dst.q[j])>>}
                                    ELSE handleValues(src.q[i], dst.q[j], p, <<>>)),
                         rest \in backtrace(src.q, dst.q, <<>>, i - 1, j - 1,
                                            editMatrix(src.q, dst.q))}

\* ---- C11

RECURSIVE ExpectedRoutes(_, _, _)
\* The operations of the diff of objects a and b, each with the route of the
\* member it is about: the keys from the root down to that member.  A key of
\* both whose members are objects is followed one level down; for any other
\* key of both, the operations handleValues gives are about that member.
ExpectedRoutes(a, b, route) ==
    ConcatOver([key \in DOMAIN a \cup DOMAIN b |->
                  IF key \notin DOMAIN a
                  THEN <<[op |-> "add", route |-> Append(route, key), value |-> b[key]]>>
                  ELSE IF key \notin DOMAIN b
                  THEN <<[op |-> "remove", route |-> Append(route, key), value |-> Null]>>
                  ELSE IF a[key].k = "obj" /\ b[key].k = "obj"
                  THEN ExpectedRoutes(a[key].m, b[key].m, Append(route, key))
                  ELSE LET ops == TheOne(handleValues(a[key], b[key], <<>>, <<>>))
                       IN [x \in 1..Len(ops) |->
                             [op |-> ops[x].op, route |-> Append(route, key),
                              value |-> ops[x].value]]],
               DOMAIN a \cup DOMAIN b)

\* The operations of a patch with each path decoded as an RFC 6901 pointer.
DecodedPatch(ops) ==
    [x \in 1..Len(ops) |->
       [op |-> ops[x].op, route |-> ParsePointer(ops[x].path), value |-> ops[x].value]]

\* The prefixes the diff of the two documents calls makePath with: the root
\* and the path of every key whose members are objects on both sides.
PrefixesUsed ==
    {<<>>} \cup {makePath(<<>>, key) :
                   key \in {x \in DOMAIN src.m \cap DOMAIN dst.m :
                              src.m[x].k = "obj" /\ dst.m[x].k = "obj"}}

\* Decoding the path of every operation gives the route of its member.
PathsFaithful == SameBag(DecodedPatch(patch), ExpectedRoutes(src.m, dst.m, <<>>))

\* makePath sends different (prefix, segment) pairs to different paths.
MakePathInjective ==
    \A p1 \in PrefixesUsed, p2 \in PrefixesUsed :
       \A k1 \in Keys \cup DOMAIN src.m, k2 \in Keys \cup DOMAIN dst.m :
          makePath(p1, k1) = makePath(p2, k2) => (p1 = p2 /\ k1 = k2)

\* C11: for every operation of the patch of two objects, the path decoded as
\* an RFC 6901 pointer is the sequence of keys through which the diff reached
\* the member the operation is about, the empty key and keys with "/" or "~"
\* included; and makePath is injective on the prefixes and keys it is given.
C11_PathFaithfulness ==
    (Created /\ src.k = "obj" /\ dst.k = "obj") =>
        (PathsFaithful /\ MakePathInjective)

=============================================================================
